---- MODULE Spec2Model ----
(***************************************************************************)
(* Model of the interactive spine visualisation (class SpineModel):       *)
(* the region catalog, the scene graph built by createDetailedSpine, the  *)
(* pointer / touch / click handlers, the hover highlight, the auto-rotate *)
(* re-enable timer, the render loop and destroy().                        *)
(*                                                                         *)
(* Units.  Angles are integers in micro-radians (0.008 rad = 8000).       *)
(* Emissive intensity is in hundredths (0.2 = 20).  Time is in ms.        *)
(***************************************************************************)
EXTENDS Integers, Sequences, FiniteSets, TLC

(***************************************************************************)
(* Bounds of the exploration (not program constants).                     *)
(***************************************************************************)
MaxFrames == 1
MaxTimers == 2
MaxEvents == 1
MaxYawSteps == 1
MaxSmoothFrames == 2
MaxLoads == 2

(***************************************************************************)
(* Program constants.                                                      *)
(***************************************************************************)
YawPerPixel == 8000
PitchPerPixel == 4000
PitchLimit == 600000
AutoRotateStep == 2000
AutoRotateDelay == 3000
DampingPercent == 6
HighlightIntensity == 20
DefaultIntensity == 100
CervicalCount == 7
ThoracicCount == 12
LumbarCount == 5

NULL == "null"
UNDEFINED == "undefined"

RegionKeys == <<"cervical", "thoracic", "lumbar", "sacral">>
Regions == {RegionKeys[i] : i \in 1..Len(RegionKeys)}

(* this.regions: the catalog, keyed by region. *)
regions ==
  [r \in Regions |->
    CASE r = "cervical" ->
           [name |-> "Cervical Spine",
            vertebrae |-> "C1 (Atlas) - C7 (Vertebra Prominens)",
            count |-> "7 vertebrae",
            description |-> "The most mobile spinal region",
            function |-> "Head support, neck mobility, houses vertebral arteries",
            nerves |-> "C1-C8 nerves control head, neck, shoulders, arms, and diaphragm",
            conditions |-> "Whiplash, cervical radiculopathy, neck strain, herniated disc",
            color |-> \H8FA07A]
      [] r = "thoracic" ->
           [name |-> "Thoracic Spine",
            vertebrae |-> "T1 - T12",
            count |-> "12 vertebrae",
            description |-> "The longest spinal region",
            function |-> "Ribcage attachment, organ protection, posture stability",
            nerves |-> "T1-T12 nerves control chest muscles, abdominal muscles, and trunk",
            conditions |-> "Kyphosis, Scheuermann's disease, thoracic outlet syndrome",
            color |-> \H7A8B69]
      [] r = "lumbar" ->
           [name |-> "Lumbar Spine",
            vertebrae |-> "L1 - L5",
            count |-> "5 vertebrae",
            description |-> "The weight-bearing powerhouse of the spine",
            function |-> "Weight bearing, flexibility, power transfer to lower body",
            nerves |-> "L1-L5 nerves control hips, legs, feet, and lower body function",
            conditions |-> "Lower back pain, sciatica, lumbar stenosis, spondylolisthesis",
            color |-> \H6B7C5A]
      [] OTHER ->
           [name |-> "Sacrum & Coccyx",
            vertebrae |-> "S1 - S5 (fused) + Co1-Co4",
            count |-> "5 fused + 4 coccygeal",
            description |-> "The foundation of the spine",
            function |-> "Pelvic stability, weight distribution, muscle attachment",
            nerves |-> "Sacral plexus controls bowel, bladder, and sexual function",
            conditions |-> "Sacroiliac dysfunction, coccydynia, sacral fractures",
            color |-> \H5C6D4B]]

(***************************************************************************)
(* Scene graph.  A node is a record                                        *)
(*   isMesh      - THREE.Mesh (TRUE) or THREE.Group (FALSE)                *)
(*   region      - userData.region, UNDEFINED when the code never sets it  *)
(*   isIndicator - userData.isIndicator                                    *)
(*   seg         - the segment (top-level group) the node belongs to       *)
(*   part        - the name of the mesh inside its segment                 *)
(*   mat         - the material object of a mesh, <<seg, material name>>   *)
(* Materials are created once per segment and shared by its meshes.       *)
(***************************************************************************)

(* userData.region of a mesh that is added to a group tagged groupRegion: *)
(* the builders tag the group only, the meshes carry no region tag.       *)
MeshRegionTagInherited(groupRegion) == groupRegion

MeshRegionTag(groupRegion) == UNDEFINED

GroupNode(seg, region) ==
  [isMesh |-> FALSE, region |-> region, isIndicator |-> FALSE,
   seg |-> seg, part |-> "group", mat |-> <<seg, "none">>]

MeshNode(seg, groupRegion, part, matName) ==
  [isMesh |-> TRUE, region |-> MeshRegionTag(groupRegion), isIndicator |-> FALSE,
   seg |-> seg, part |-> part, mat |-> <<seg, matName>>]

(* The meshes of one vertebra, in the order of group.add. *)
VertebraParts(regionKey) ==
  <<  <<"body", "bone">>, <<"leftPedicle", "bone">>, <<"rightPedicle", "bone">>,
      <<"leftLamina", "bone">>, <<"rightLamina", "bone">>,
      <<"spinousProcess", "darkBone">> >>
  \o (IF regionKey = "cervical"
        THEN << <<"leftTip", "darkBone">>, <<"rightTip", "darkBone">> >>
        ELSE << >>)
  \o << <<"leftTransverse", "bone">>, <<"rightTransverse", "bone">>,
        <<"supLeftFacet", "darkBone">>, <<"supRightFacet", "darkBone">>,
        <<"infLeftFacet", "darkBone">>, <<"infRightFacet", "darkBone">> >>
  \o (IF regionKey = "thoracic"
        THEN << <<"leftCostal", "costal">>, <<"rightCostal", "costal">> >>
        ELSE << >>)

createDetailedVertebra(seg, regionKey) ==
  LET parts == VertebraParts(regionKey)
  IN  <<GroupNode(seg, regionKey)>>
      \o [k \in 1..Len(parts) |-> MeshNode(seg, regionKey, parts[k][1], parts[k][2])]

createDetailedDisc(seg) ==
  << GroupNode(seg, UNDEFINED),
     MeshNode(seg, UNDEFINED, "annulus", "annulus"),
     MeshNode(seg, UNDEFINED, "nucleus", "nucleus") >>

SacrumParts ==
  << <<"sacrum", "bone">> >>
  \o [k \in 1..8 |-> <<"foramen", "foramen">>]
  \o << <<"leftWing", "bone">>, <<"rightWing", "bone">> >>
  \o [k \in 1..4 |-> <<"crest", "bone">>]

createDetailedSacrum(seg) ==
  <<GroupNode(seg, "sacral")>>
  \o [k \in 1..Len(SacrumParts) |->
        MeshNode(seg, "sacral", SacrumParts[k][1], SacrumParts[k][2])]

createDetailedCoccyx(seg) ==
  <<GroupNode(seg, "sacral")>>
  \o [k \in 1..4 |-> MeshNode(seg, "sacral", "segment", "bone")]

createRegionIndicator(regionKey) ==
  [isMesh |-> TRUE, region |-> regionKey, isIndicator |-> TRUE,
   seg |-> <<"indicator", regionKey, 0>>, part |-> "indicator",
   mat |-> <<<<"indicator", regionKey, 0>>, "basic">>]

(* One region's column: vertebra i followed by a disc unless it is the last. *)
RECURSIVE VertebraColumn(_, _, _)
VertebraColumn(regionKey, i, total) ==
  IF i >= total THEN << >>
  ELSE createDetailedVertebra(<<"vertebra", regionKey, i>>, regionKey)
       \o (IF i < total - 1 THEN createDetailedDisc(<<"disc", regionKey, i>>) ELSE << >>)
       \o VertebraColumn(regionKey, i + 1, total)

(* The children of spineGroup flattened in the pre-order of traverse(). *)
createDetailedSpine ==
  VertebraColumn("cervical", 0, CervicalCount)
  \o VertebraColumn("thoracic", 0, ThoracicCount)
  \o VertebraColumn("lumbar", 0, LumbarCount)
  \o createDetailedSacrum(<<"sacrum", "sacral", 0>>)
  \o createDetailedCoccyx(<<"coccyx", "sacral", 0>>)
  \o [k \in 1..Len(RegionKeys) |-> createRegionIndicator(RegionKeys[k])]

Scene == createDetailedSpine

NodeIds == 1..Len(Scene)
MeshIds == {n \in NodeIds : Scene[n].isMesh}
AnatomyMeshIds == {n \in MeshIds : ~Scene[n].isIndicator}
Materials == {Scene[n].mat : n \in MeshIds}

(* The region key of the segment (group) a mesh was built into. *)
SegmentRegion(n) ==
  LET g == CHOOSE k \in NodeIds : ~Scene[k].isMesh /\ Scene[k].seg = Scene[n].seg
  IN  Scene[g].region

(* Colour a material is created with. *)
InitialColor(m) ==
  CASE m[2] = "bone" -> \HD4C8B8
    [] m[2] = "darkBone" -> \HC4B8A8
    [] m[2] = "costal" -> \HC8C0B4
    [] m[2] = "annulus" -> \H7A8B69
    [] m[2] = "nucleus" -> \H9AAB8A
    [] m[2] = "foramen" -> \H3A3A3A
    [] OTHER -> regions[m[1][2]].color

(* MeshStandardMaterial has an emissive colour, MeshBasicMaterial has none. *)
HasEmissive(m) == m[2] # "basic"

InitialMaterial(m) ==
  [color |-> InitialColor(m), emissive |-> 0, emissiveIntensity |-> DefaultIntensity]

(***************************************************************************)
(* Spine assembly: createDetailedSpine statement by statement.  Lengths    *)
(* are in thousandths of a scene unit, curve offsets in 10^-9 units        *)
(* (an amplitude in thousandths times a sine in millionths), in exact      *)
(* decimal arithmetic.                                                     *)
(***************************************************************************)
VertebraSpacing == 480
TopY == 4500
RegionGap == 100
SacrumGap == 250
CoccyxDrop == 1500
SacralDepth == 2100

(* spineGroup.rotation.x = 0.15 and .y = -0.4 on assembly; every frame     *)
(* sets the rotation to 0.15 + currentRotation.x and currentRotation.y.    *)
InitialTilt == 150000
InitialTurn == 400000

SpineRotation(current) == [x |-> InitialTilt + current.x, y |-> current.y]

(* Math.sin(Math.PI * index / total) in millionths, for the totals the     *)
(* assembler uses; Math.sin(0) is exactly 0.                               *)
SinPiTable(total) ==
  CASE total = 5 -> <<0, 587785, 951057, 951057, 587785>>
    [] total = 7 -> <<0, 433884, 781831, 974928, 974928, 781831, 433884>>
    [] total = 12 -> <<0, 258819, 500000, 707107, 866025, 965926, 1000000,
                       965926, 866025, 707107, 500000, 258819>>

SinPi(index, total) == SinPiTable(total)[index + 1]

getCurveOffsetForward(region, index, total) ==
  CASE region = "cervical" -> 150 * SinPi(index, total)
    [] region = "thoracic" -> 250 * SinPi(index, total)
    [] region = "lumbar" -> 350 * SinPi(index, total)
    [] OTHER -> 0

(* t = index / total; amplitude * Math.sin(t * Math.PI) by region. *)
getCurveOffset(region, index, total) ==
  CASE region = "cervical" -> 150 * SinPi(index, total)
    [] region = "thoracic" -> -250 * SinPi(index, total)
    [] region = "lumbar" -> 350 * SinPi(index, total)
    [] OTHER -> 0

(* The three vertebra loops: segment count, the gap left above the region, *)
(* and the scale ramp 0.75 + i * 0.035 etc.                                *)
VertebraLoop(regionKey) ==
  CASE regionKey = "cervical" ->
         [total |-> CervicalCount, gap |-> 0, scaleBase |-> 750, scaleStep |-> 35]
    [] regionKey = "thoracic" ->
         [total |-> ThoracicCount, gap |-> RegionGap, scaleBase |-> 950, scaleStep |-> 20]
    [] regionKey = "lumbar" ->
         [total |-> LumbarCount, gap |-> RegionGap, scaleBase |-> 1200, scaleStep |-> 40]

VertebraConfigCopied(regionKey, scale, curveOffset) ==
  [scale |-> scale, regionKey |-> regionKey, isCervical |-> TRUE,
   curveOffset |-> curveOffset]

(* The config object literal each loop passes to createDetailedVertebra. *)
VertebraConfig(regionKey, scale, curveOffset) ==
  CASE regionKey = "cervical" ->
         [scale |-> scale, regionKey |-> regionKey, isCervical |-> TRUE,
          curveOffset |-> curveOffset]
    [] regionKey = "thoracic" ->
         [scale |-> scale, regionKey |-> regionKey, isThoracic |-> TRUE,
          curveOffset |-> curveOffset]
    [] regionKey = "lumbar" ->
         [scale |-> scale, regionKey |-> regionKey, isLumbar |-> TRUE,
          curveOffset |-> curveOffset]

(* Destructuring default `= false' of a shape flag. *)
ConfigFlag(config, name) ==
  IF name \in DOMAIN config THEN config[name] ELSE FALSE

(* A vertebra group as placed in spineGroup: its tag, the parameters it    *)
(* was built with and its position.y.                                      *)
PlacedVertebra(seg, config, y) ==
  [seg |-> seg, region |-> config.regionKey, y |-> y,
   scale |-> config.scale, curveOffset |-> config.curveOffset,
   isCervical |-> ConfigFlag(config, "isCervical"),
   isThoracic |-> ConfigFlag(config, "isThoracic"),
   isLumbar |-> ConfigFlag(config, "isLumbar")]

(* createDetailedDisc(scale * 0.95, curveOffset): scale in millionths. *)
PlacedDisc(seg, scale, curveOffset, y) ==
  [seg |-> seg, region |-> UNDEFINED, y |-> y, scale |-> scale * 950,
   curveOffset |-> curveOffset]

(* The sacrum and the coccyx are built without a curve offset: their       *)
(* meshes keep depth 0.                                                    *)
PlacedSacral(seg, y) ==
  [seg |-> seg, region |-> "sacral", y |-> y, curveOffset |-> 0]

RegionIndicatorAtStart(yStart, yEnd, regionKey) ==
  [seg |-> <<"indicator", regionKey, 0>>, region |-> regionKey,
   isIndicator |-> TRUE,
   height |-> IF yEnd >= yStart THEN yEnd - yStart ELSE yStart - yEnd,
   y |-> yStart]

(* createRegionIndicator(yStart, yEnd, regionKey): the cylinder's height   *)
(* Math.abs(yEnd - yStart) and its position.y (yStart + yEnd) / 2.         *)
RegionIndicator(yStart, yEnd, regionKey) ==
  [seg |-> <<"indicator", regionKey, 0>>, region |-> regionKey,
   isIndicator |-> TRUE,
   height |-> IF yEnd >= yStart THEN yEnd - yStart ELSE yStart - yEnd,
   y |-> (yStart + yEnd) \div 2]

(* The loop that follows the loop of regionKey. *)
NextLoop(regionKey) ==
  CASE regionKey = "cervical" -> "thoracic"
    [] regionKey = "thoracic" -> "lumbar"
    [] OTHER -> NULL

(* The locals and results of createDetailedSpine on entry. *)
SpineStart ==
  [pc |-> "regionStart", region |-> "cervical", i |-> 0, currentY |-> TopY,
   scale |-> 0, curveOffset |-> 0,
   start |-> [r \in {} |-> 0], end |-> [r \in {} |-> 0],
   children |-> << >>, regionMeshes |-> << >>,
   rotation |-> [x |-> 0, y |-> 0]]

(* No init(), no scene. *)
NoSpine == [SpineStart EXCEPT !.pc = "none", !.region = NULL, !.currentY = 0]

(* One statement (or group of statements without a branch) of              *)
(* createDetailedSpine, by position s.pc.                                  *)
createDetailedSpineStep(s) ==
  CASE s.pc = "regionStart" ->
         (* currentY -= 0.1; const thoracicStart = currentY; i = 0 *)
         LET y == s.currentY - VertebraLoop(s.region).gap
         IN  [s EXCEPT !.currentY = y, !.start = (s.region :> y) @@ @,
                       !.i = 0, !.pc = "scale"]
    [] s.pc = "scale" ->
         [s EXCEPT !.scale = VertebraLoop(s.region).scaleBase
                               + s.i * VertebraLoop(s.region).scaleStep,
                   !.pc = "curveOffset"]
    [] s.pc = "curveOffset" ->
         [s EXCEPT !.curveOffset =
                      getCurveOffset(s.region, s.i, VertebraLoop(s.region).total),
                   !.pc = "vertebra"]
    [] s.pc = "vertebra" ->
         [s EXCEPT !.children =
                      Append(@, PlacedVertebra(<<"vertebra", s.region, s.i>>,
                                  VertebraConfig(s.region, s.scale, s.curveOffset),
                                  s.currentY)),
                   !.pc = "disc"]
    [] s.pc = "disc" ->
         IF s.i < VertebraLoop(s.region).total - 1
           THEN [s EXCEPT !.children =
                             Append(@, PlacedDisc(<<"disc", s.region, s.i>>, s.scale,
                                         s.curveOffset,
                                         s.currentY - VertebraSpacing \div 2)),
                          !.pc = "advance"]
           ELSE [s EXCEPT !.pc = "advance"]
    [] s.pc = "advance" ->
         [s EXCEPT !.currentY = @ - VertebraSpacing, !.i = @ + 1,
                   !.pc = IF s.i + 1 < VertebraLoop(s.region).total
                            THEN "scale" ELSE "regionEnd"]
    [] s.pc = "regionEnd" ->
         [s EXCEPT !.end = (s.region :> s.currentY + VertebraSpacing) @@ @,
                   !.region = NextLoop(s.region),
                   !.pc = IF NextLoop(s.region) # NULL THEN "regionStart"
                                                        ELSE "sacrum"]
    [] s.pc = "sacrum" ->
         LET y == s.currentY - SacrumGap
         IN  [s EXCEPT !.currentY = y, !.start = ("sacral" :> y) @@ @,
                       !.children = Append(@, PlacedSacral(<<"sacrum", "sacral", 0>>, y)),
                       !.pc = "coccyx"]
    [] s.pc = "coccyx" ->
         [s EXCEPT !.children = Append(@, PlacedSacral(<<"coccyx", "sacral", 0>>,
                                            s.currentY - CoccyxDrop)),
                   !.end = ("sacral" :> s.currentY - SacralDepth) @@ @,
                   !.pc = "indicators"]
    [] s.pc = "indicators" ->
         [s EXCEPT !.regionMeshes =
                      [k \in 1..Len(RegionKeys) |->
                         RegionIndicator(s.start[RegionKeys[k]], s.end[RegionKeys[k]],
                                         RegionKeys[k])],
                   !.pc = "rotation"]
    [] s.pc = "rotation" ->
         [s EXCEPT !.rotation = [x |-> InitialTilt, y |-> -InitialTurn],
                   !.pc = "done"]
    [] OTHER -> s

(* createDetailedSpine run to its end. *)
RECURSIVE createDetailedSpineFrom(_)
createDetailedSpineFrom(s) ==
  IF s.pc = "done" THEN s ELSE createDetailedSpineFrom(createDetailedSpineStep(s))

BuiltSpine == createDetailedSpineFrom(SpineStart)


(***************************************************************************)
(* State.                                                                  *)
(*   container, renderer, canvasAttached, listeners, framePending,         *)
(*   renderCalls, thrown   - construction, render loop and teardown        *)
(*   isDragging .. currentRotation - the interaction state of the object   *)
(*   hoveredRegion, cursor, material, userData, tooltip - hover            *)
(*   timers     - pending setTimeout callbacks: remaining ms, oldest first *)
(*   dispatched - CustomEvents dispatched on the container                 *)
(*   spine      - the locals of createDetailedSpine, its position pc and   *)
(*                what it has built: children (the segments added to       *)
(*                spineGroup, top first), regionMeshes (the hit-test       *)
(*                volumes) and the group's rotation                        *)
(* History variables, written but never read by the handlers:             *)
(*   prevHovered  - hoveredRegion before its last change                   *)
(*   gesture      - the drag gesture: phase "none", "drag" (in progress)   *)
(*                  or "done" (ended); x0, y0, yaw0, pitch0: pointer       *)
(*                  position and rotation target at its start; moves: its  *)
(*                  drag moves (counted up to 2); upOnly: no move of it    *)
(*                  went down the screen (to a larger clientY); dx, dyaw:  *)
(*                  pointer and yaw displacement when it ended             *)
(*   destroyCalls - has destroy() been called                              *)
(*   sinceDragEnd - ms since the last drag ended (-1: none ended yet),     *)
(*                  saturating at AutoRotateDelay                          *)
(*   clickLog     - ray-cast result of every click so far                  *)
(*   lastHit      - the ray-cast result of the most recent mousemove,      *)
(*                  "none" before the first                                *)
(*   lastEvent    - "multiTouch" when the last thing that happened was a   *)
(*                  touchstart or touchmove with other than one touch,     *)
(*                  "other" otherwise                                      *)
(*                                                                         *)
(* The cookie-consent script (src/cookie-consent.js), an independent       *)
(* widget of the same pages:                                               *)
(*   consent          - localStorage petros_cookie_consent_v1 (NULL,       *)
(*                      "accepted" or "rejected")                          *)
(*   sessionShown     - sessionStorage petros_cookie_shown_v1 is '1'       *)
(*   sessionDismissed - sessionStorage petros_cookie_dismissed_v1 is '1'   *)
(*   banner           - the element #cookie-banner is in the document      *)
(*   modal            - the element .cc-modal-overlay is in the document   *)
(*   analyticsSwitch  - aria-checked of #cc-analytics-switch               *)
(*   analyticsEnabled - window.__PETROS_ANALYTICS_ENABLED__                *)
(*   enableCalls      - calls of window.enableAnalytics() on this page     *)
(*   loads            - page loads so far in this browser session          *)
(*   bannerClass      - which of the classes collapsed, cc-show, avoid-wa  *)
(*                      and collapsed-right the banner in the document has *)
(*   initPending      - init() waits for DOMContentLoaded                  *)
(*   showPending      - init()'s requestAnimationFrame callback has not    *)
(*                      run yet                                            *)
(*   outsideListeners - the document has the banner's click and keydown    *)
(*                      listeners (attached on wide windows only)          *)
(* History variables of the script:                                        *)
(*   bannerLoads      - the page loads of this session that showed the     *)
(*                      banner                                             *)
(*   triggers         - the events on this page that ask for analytics:    *)
(*                      accepted consent found at load, the banner's       *)
(*                      Accept, the modal's Save with the switch on        *)
(*                                                                         *)
(*   mirror       - the drag fields of a second model that has received a  *)
(*                  single-touch touchstart / touchmove / touchend with    *)
(*                  the same coordinates wherever this one received a      *)
(*                  mousedown / mousemove / mouseup, and otherwise the     *)
(*                  same events, timer callbacks and frames                *)
(***************************************************************************)
VARIABLES container, renderer, canvasAttached, listeners, framePending,
          renderCalls, thrown,
          isDragging, autoRotate, previousMousePosition, targetRotation,
          currentRotation,
          hoveredRegion, cursor, material, userData, tooltip,
          timers, dispatched,
          prevHovered, gesture, sinceDragEnd, clickLog, destroyCalls,
          spine, lastEvent, lastHit, mirror,
          consent, sessionShown, sessionDismissed, banner, modal,
          analyticsSwitch, analyticsEnabled, enableCalls, loads,
          bannerClass, outsideListeners, initPending, showPending,
          bannerLoads, triggers

lifeVars == <<container, renderer, canvasAttached, listeners, thrown>>
frameVars == <<framePending, renderCalls, currentRotation>>
dragVars == <<isDragging, autoRotate, previousMousePosition, targetRotation>>
hoverVars == <<hoveredRegion, material, userData, tooltip, prevHovered>>
clickVars == <<dispatched, clickLog>>
cookieVars == <<consent, sessionShown, sessionDismissed, banner, modal,
                analyticsSwitch, analyticsEnabled, enableCalls, loads,
                bannerClass, outsideListeners, initPending, showPending,
          bannerLoads, triggers>>
modelVars == <<lifeVars, frameVars, dragVars, hoverVars, clickVars, cursor,
               timers, gesture, sinceDragEnd, destroyCalls, spine, lastEvent,
               lastHit, mirror>>

(* A browser session that has loaded no page yet: sessionStorage is empty  *)
(* and there is no window.                                                 *)
NoPage ==
  /\ sessionShown = FALSE
  /\ sessionDismissed = FALSE
  /\ banner = FALSE
  /\ modal = FALSE
  /\ analyticsSwitch = FALSE
  /\ analyticsEnabled = FALSE
  /\ enableCalls = 0
  /\ loads = 0
  /\ bannerClass = {}
  /\ outsideListeners = FALSE
  /\ initPending = FALSE
  /\ showPending = FALSE
  /\ bannerLoads = 0
  /\ triggers = 0

(* The fields that the drag handlers and the re-enable timers read and     *)
(* write.                                                                  *)
DragState ==
  [isDragging |-> isDragging, autoRotate |-> autoRotate,
   previousMousePosition |-> previousMousePosition,
   targetRotation |-> targetRotation, timers |-> timers]
vars == <<container, renderer, canvasAttached, listeners, framePending,
          renderCalls, thrown,
          isDragging, autoRotate, previousMousePosition, targetRotation,
          currentRotation,
          hoveredRegion, cursor, material, userData, tooltip,
          timers, dispatched,
          prevHovered, gesture, sinceDragEnd, clickLog, destroyCalls,
          spine, lastEvent, lastHit, mirror,
          consent, sessionShown, sessionDismissed, banner, modal,
          analyticsSwitch, analyticsEnabled, enableCalls, loads,
          bannerClass, outsideListeners, initPending, showPending,
          bannerLoads, triggers>>

NoGesture ==
  [phase |-> "none", x0 |-> 0, y0 |-> 0, yaw0 |-> 0, pitch0 |-> 0,
   upOnly |-> TRUE, moves |-> 0, dx |-> 0, dyaw |-> 0]

Min(a, b) == IF a < b THEN a ELSE b
Max(a, b) == IF a > b THEN a ELSE b

CanvasEvents == {"mousedown", "mousemove", "mouseup", "mouseleave",
                 "touchstart", "touchmove", "touchend", "click"}

(* `if (!this.container) return;' - does the constructor go on to init()? *)
ConstructorProceedsAlways(present) == TRUE

ConstructorProceeds(present) == present

(* current += (target - current) * 0.06 *)
SmoothOvershoot(current, target) == current + ((target - current) * (100 + DampingPercent)) \div 100

(* `current += (target - current) * 0.06' *)
Smooth(current, target) == current + ((target - current) * DampingPercent) \div 100

AnimateRotationAlways(auto, target, current) ==
  LET t == [target EXCEPT !.y = @ + AutoRotateStep]
  IN  [target |-> t,
       current |-> [x |-> Smooth(current.x, t.x), y |-> Smooth(current.y, t.y)]]

(* The body of animate() after requestAnimationFrame, as a function of     *)
(* the rotation state: returns the new target and current rotation.        *)
AnimateRotation(auto, target, current) ==
  LET t == IF auto THEN [target EXCEPT !.y = @ + AutoRotateStep] ELSE target
  IN  [target |-> t,
       current |-> [x |-> Smooth(current.x, t.x), y |-> Smooth(current.y, t.y)]]

(* The object after `new SpineModel(id)' when the container exists:        *)
(* the constructor's assignments, then init(), whose call of animate()     *)
(* requests the first frame and runs the first frame body.                 *)
Constructed ==
  LET first == AnimateRotation(TRUE, [x |-> 0, y |-> 0], [x |-> 0, y |-> 0])
  IN  /\ renderer = "live"
      /\ canvasAttached = TRUE
      /\ listeners = CanvasEvents
      /\ framePending = TRUE
      /\ renderCalls = 1
      /\ isDragging = FALSE
      /\ autoRotate = TRUE
      /\ previousMousePosition = [x |-> 0, y |-> 0]
      /\ targetRotation = first.target
      /\ currentRotation = first.current
      /\ hoveredRegion = NULL
      /\ cursor = "grab"
      /\ material = [m \in Materials |-> InitialMaterial(m)]
      /\ spine = [BuiltSpine EXCEPT !.rotation = SpineRotation(first.current)]

(* The object when the constructor returned early: no field but container  *)
(* was assigned.  Unassigned fields are shown as UNDEFINED where they are  *)
(* compared with strings and as FALSE / 0 elsewhere.                       *)
Inert ==
  /\ renderer = UNDEFINED
  /\ canvasAttached = FALSE
  /\ listeners = {}
  /\ framePending = FALSE
  /\ renderCalls = 0
  /\ isDragging = FALSE
  /\ autoRotate = FALSE
  /\ previousMousePosition = [x |-> 0, y |-> 0]
  /\ targetRotation = [x |-> 0, y |-> 0]
  /\ currentRotation = [x |-> 0, y |-> 0]
  /\ hoveredRegion = UNDEFINED
  /\ cursor = UNDEFINED
  /\ material = [m \in {} |-> 0]
  /\ spine = NoSpine

Init ==
  /\ container \in BOOLEAN
  /\ IF ConstructorProceeds(container) THEN Constructed ELSE Inert
  /\ thrown = NULL
  /\ userData = [n \in {} |-> 0]
  /\ tooltip = [count |-> 0, visible |-> FALSE, content |-> NULL]
  /\ timers = << >>
  /\ dispatched = << >>
  /\ prevHovered = NULL
  /\ gesture = NoGesture
  /\ destroyCalls = FALSE
  /\ sinceDragEnd = -1
  /\ clickLog = << >>
  /\ lastEvent = "other"
  /\ lastHit = "none"
  /\ mirror = DragState
  /\ consent = NULL
  /\ NoPage


(***************************************************************************)
(* Hover highlight.                                                        *)
(***************************************************************************)

NodeSeq == [n \in 1..Len(Scene) |-> n]

(* The nodes on which highlightRegion's traverse callback acts, in the     *)
(* order of the traversal: `child.isMesh && child.userData.region ===      *)
(* regionKey && !child.userData.isIndicator'.                              *)
HighlightTargets ==
  [regionKey \in Regions |->
     SelectSeq(NodeSeq, LAMBDA n : /\ Scene[n].isMesh
                                   /\ Scene[n].region = regionKey
                                   /\ ~Scene[n].isIndicator)]

(* The callback's body at node n; st is the pair of material and userData  *)
(* as left by the nodes visited before.                                    *)
HighlightNode(st, n, regionKey) ==
  LET child == Scene[n]
      mat == st.material[child.mat]
  IN  [userData |->
         (n :> [originalColor |-> mat.color,
                originalEmissive |-> IF HasEmissive(child.mat)
                                       THEN mat.emissive ELSE 0])
         @@ st.userData,
       material |->
         [st.material EXCEPT ![child.mat] =
            IF HasEmissive(child.mat)
              THEN [color |-> regions[regionKey].color,
                    emissive |-> regions[regionKey].color,
                    emissiveIntensity |-> HighlightIntensity]
              ELSE [@ EXCEPT !.color = regions[regionKey].color]]]

(* The callback applied to targets[lo..hi] in order: first to lo..mid,     *)
(* then, on the state that leaves, to mid+1..hi.                           *)
RECURSIVE HighlightRange(_, _, _, _, _)
HighlightRange(st, targets, lo, hi, regionKey) ==
  IF lo > hi THEN st
  ELSE IF lo = hi THEN HighlightNode(st, targets[lo], regionKey)
  ELSE LET mid == (lo + hi) \div 2
           first == HighlightRange(st, targets, lo, mid, regionKey)
       IN  IF DOMAIN first = {} THEN first
           ELSE HighlightRange(first, targets, mid + 1, hi, regionKey)

highlightRegion(st, regionKey) ==
  HighlightRange(st, HighlightTargets[regionKey], 1,
                 Len(HighlightTargets[regionKey]), regionKey)

(* The nodes on which unhighlightRegion's callback acts: `child.isMesh &&  *)
(* child.userData.originalColor !== undefined'.                            *)
UnhighlightTargets(st) ==
  SelectSeq(NodeSeq, LAMBDA n : Scene[n].isMesh /\ n \in DOMAIN st.userData)

UnhighlightNode(st, n) ==
  LET child == Scene[n]
  IN  [st EXCEPT !.material[child.mat] =
         IF HasEmissive(child.mat)
           THEN [color |-> st.userData[n].originalColor,
                 emissive |-> st.userData[n].originalEmissive,
                 emissiveIntensity |-> 0]
           ELSE [@ EXCEPT !.color = st.userData[n].originalColor]]

RECURSIVE UnhighlightRange(_, _, _, _)
UnhighlightRange(st, targets, lo, hi) ==
  IF lo > hi THEN st
  ELSE IF lo = hi THEN UnhighlightNode(st, targets[lo])
  ELSE LET mid == (lo + hi) \div 2
           first == UnhighlightRange(st, targets, lo, mid)
       IN  IF DOMAIN first = {} THEN first
           ELSE UnhighlightRange(first, targets, mid + 1, hi)

unhighlightRegion(st) ==
  LET targets == UnhighlightTargets(st)
  IN  UnhighlightRange(st, targets, 1, Len(targets))

(* showTooltip: the element is created on first use, then reused. *)
(* The innerHTML that showTooltip writes: the four blocks of the template  *)
(* with the region's fields filled in.                                     *)
TooltipContent(regionKey) ==
  LET region == regions[regionKey]
  IN  [title |-> region.name,
       vertebrae |-> <<region.count, region.vertebrae>>,
       desc |-> region.description,
       conditions |-> region.conditions]

(* tt: the elements with id spine-tooltip (count), whether the element     *)
(* has the class `visible', and its content.                               *)
showTooltip(tt, regionKey) ==
  [count |-> IF tt.count = 0 THEN 1 ELSE tt.count,
   visible |-> TRUE,
   content |-> TooltipContent(regionKey)]

hideTooltipKeep(tt) == tt

hideTooltip(tt) == IF tt.count > 0 THEN [tt EXCEPT !.visible = FALSE] ELSE tt

(* checkHover with the ray-cast result hit: the region of the nearest      *)
(* hit-test volume on the ray, or NULL when the ray misses them all.       *)
(* The cursor is left to the caller when hover does not set it.            *)
checkHover(hit) ==
  IF hit # NULL
    THEN IF hoveredRegion # hit
           THEN LET st == highlightRegion([material |-> material,
                                           userData |-> userData], hit)
                IN  /\ hoveredRegion' = hit
                    /\ prevHovered' = hoveredRegion
                    /\ material' = st.material
                    /\ userData' = st.userData
                    /\ tooltip' = showTooltip(tooltip, hit)
                    /\ cursor' = "pointer"
           ELSE UNCHANGED <<hoverVars, cursor>>
    ELSE IF hoveredRegion # NULL
           THEN LET st == unhighlightRegion([material |-> material,
                                             userData |-> userData])
                IN  /\ material' = st.material
                    /\ userData' = st.userData
                    /\ tooltip' = hideTooltip(tooltip)
                    /\ hoveredRegion' = NULL
                    /\ prevHovered' = hoveredRegion
                    /\ cursor' = IF isDragging THEN "grabbing" ELSE "grab"
           ELSE UNCHANGED <<hoverVars, cursor>>

(***************************************************************************)
(* Drag.                                                                   *)
(***************************************************************************)

(* Math.max(-0.6, Math.min(0.6, x)) *)
ClampPitchUpperOnly(x) == Min(PitchLimit, x)

ClampPitchOff(x) == x

ClampPitch(x) == Max(-PitchLimit, Min(PitchLimit, x))

DragRotationYawClamped(target, prev, x, y) ==
  [y |-> ClampPitch(target.y + (x - prev.x) * YawPerPixel),
   x |-> ClampPitch(target.x + (y - prev.y) * PitchPerPixel)]

(* The rotation target after a drag move from prev to (x, y). *)
DragRotation(target, prev, x, y) ==
  [y |-> target.y + (x - prev.x) * YawPerPixel,
   x |-> ClampPitch(target.x + (y - prev.y) * PitchPerPixel)]

(* `e.touches.length === 1' *)
AnyTouch(touches) == touches >= 1

SingleTouch(touches) == touches = 1

(* onTouchStart as a function of those fields. *)
TouchStartEffect(d, touches, x, y) ==
  IF SingleTouch(touches)
    THEN [d EXCEPT !.isDragging = TRUE, !.autoRotate = FALSE,
                   !.previousMousePosition = [x |-> x, y |-> y]]
    ELSE d

TouchMoveEffectUnclamped(d, touches, x, y) ==
  IF ~d.isDragging \/ ~SingleTouch(touches)
    THEN d
    ELSE [d EXCEPT !.targetRotation =
                      [y |-> @.y + (x - d.previousMousePosition.x) * YawPerPixel,
                       x |-> @.x + (y - d.previousMousePosition.y) * PitchPerPixel],
                   !.previousMousePosition = [x |-> x, y |-> y]]

(* onTouchMove as a function of those fields. *)
TouchMoveEffect(d, touches, x, y) ==
  IF ~d.isDragging \/ ~SingleTouch(touches)
    THEN d
    ELSE [d EXCEPT !.targetRotation =
                      DragRotation(d.targetRotation, d.previousMousePosition, x, y),
                   !.previousMousePosition = [x |-> x, y |-> y]]

(* Largest yaw target magnitude explored. *)
MaxYaw == MaxYawSteps * 100 * YawPerPixel + (MaxFrames + 1) * AutoRotateStep

(* The user can reach the canvas only while it is in the document. *)
UserEvent(type) == type \in listeners /\ canvasAttached

onPointerDown(x, y) ==
  /\ UserEvent("mousedown")
  /\ isDragging' = TRUE
  /\ autoRotate' = FALSE
  /\ previousMousePosition' = [x |-> x, y |-> y]
  /\ cursor' = "grabbing"
  /\ gesture' = [NoGesture EXCEPT !.phase = "drag", !.x0 = x, !.y0 = y,
                                  !.yaw0 = targetRotation.y,
                                  !.pitch0 = targetRotation.x]
  /\ UNCHANGED <<lifeVars, frameVars, targetRotation, hoverVars, timers,
                 clickVars, sinceDragEnd, destroyCalls>>
  /\ UNCHANGED spine
  /\ lastEvent' = "other"
  /\ UNCHANGED lastHit
  /\ mirror' = TouchStartEffect(mirror, 1, x, y)
  /\ UNCHANGED cookieVars

onPointerMoveHoverIdle(x, y, hit) ==
  /\ UserEvent("mousemove")
  /\ IF isDragging THEN UNCHANGED <<hoverVars, cursor>> ELSE checkHover(hit)
  /\ IF isDragging
       THEN /\ targetRotation' = DragRotation(targetRotation, previousMousePosition, x, y)
            /\ targetRotation'.y <= MaxYaw /\ targetRotation'.y >= -MaxYaw
            /\ previousMousePosition' = [x |-> x, y |-> y]
            /\ gesture' = [gesture EXCEPT !.moves = Min(2, @ + 1),
                                          !.upOnly = @ /\ y <= previousMousePosition.y]
       ELSE UNCHANGED <<targetRotation, previousMousePosition, gesture>>
  /\ UNCHANGED <<lifeVars, frameVars, isDragging, autoRotate, timers,
                 clickVars, sinceDragEnd, destroyCalls>>
  /\ UNCHANGED spine
  /\ lastEvent' = "other"
  /\ lastHit' = hit
  /\ mirror' = TouchMoveEffect(mirror, 1, x, y)
  /\ UNCHANGED cookieVars

onPointerMove(x, y, hit) ==
  /\ UserEvent("mousemove")
  /\ checkHover(hit)
  /\ IF isDragging
       THEN /\ targetRotation' = DragRotation(targetRotation, previousMousePosition, x, y)
            /\ targetRotation'.y <= MaxYaw /\ targetRotation'.y >= -MaxYaw
            /\ previousMousePosition' = [x |-> x, y |-> y]
            /\ gesture' = [gesture EXCEPT !.moves = Min(2, @ + 1),
                                          !.upOnly = @ /\ y <= previousMousePosition.y]
       ELSE UNCHANGED <<targetRotation, previousMousePosition, gesture>>
  /\ UNCHANGED <<lifeVars, frameVars, isDragging, autoRotate, timers,
                 clickVars, sinceDragEnd, destroyCalls>>
  /\ UNCHANGED spine
  /\ lastEvent' = "other"
  /\ lastHit' = hit
  /\ mirror' = TouchMoveEffect(mirror, 1, x, y)
  /\ UNCHANGED cookieVars

ScheduleTimerTwice(q) == Append(Append(q, AutoRotateDelay), AutoRotateDelay)

(* setTimeout(callback, 3000) *)
ScheduleTimer(q) == Append(q, AutoRotateDelay)

(* mouseup, mouseleave and touchend all run onPointerUp. *)
onPointerUp(type) ==
  /\ UserEvent(type)
  /\ Len(timers) < MaxTimers
  /\ isDragging' = FALSE
  /\ cursor' = "grab"
  /\ timers' = ScheduleTimer(timers)
  /\ sinceDragEnd' = IF isDragging THEN 0 ELSE sinceDragEnd
  /\ gesture' = IF isDragging
                  THEN [NoGesture EXCEPT !.phase = "done", !.moves = gesture.moves,
                                         !.dx = previousMousePosition.x - gesture.x0,
                                         !.dyaw = targetRotation.y - gesture.yaw0]
                  ELSE gesture
  /\ UNCHANGED <<lifeVars, frameVars, autoRotate, previousMousePosition,
                 targetRotation, hoverVars, clickVars, destroyCalls>>
  /\ UNCHANGED spine
  /\ lastEvent' = "other"
  /\ UNCHANGED lastHit
  /\ mirror' = [mirror EXCEPT !.isDragging = FALSE, !.timers = ScheduleTimer(@)]
  /\ UNCHANGED cookieVars

(* touches: the number of touches of the event; (x, y) is touches[0]. *)
onTouchStart(touches, x, y) ==
  /\ UserEvent("touchstart")
  /\ LET d == TouchStartEffect(DragState, touches, x, y)
     IN  /\ isDragging' = d.isDragging
         /\ autoRotate' = d.autoRotate
         /\ previousMousePosition' = d.previousMousePosition
         /\ targetRotation' = d.targetRotation
         /\ timers' = d.timers
  /\ gesture' = IF touches = 1
                  THEN [NoGesture EXCEPT !.phase = "drag", !.x0 = x, !.y0 = y,
                                         !.yaw0 = targetRotation.y,
                                         !.pitch0 = targetRotation.x]
                  ELSE gesture
  /\ UNCHANGED <<lifeVars, frameVars, hoverVars, cursor,
                 clickVars, sinceDragEnd, destroyCalls>>
  /\ UNCHANGED spine
  /\ lastEvent' = IF touches = 1 THEN "other" ELSE "multiTouch"
  /\ UNCHANGED lastHit
  /\ mirror' = TouchStartEffect(mirror, touches, x, y)
  /\ UNCHANGED cookieVars

onTouchMove(touches, x, y) ==
  /\ UserEvent("touchmove")
  /\ LET d == TouchMoveEffect(DragState, touches, x, y)
     IN  /\ isDragging' = d.isDragging
         /\ autoRotate' = d.autoRotate
         /\ previousMousePosition' = d.previousMousePosition
         /\ targetRotation' = d.targetRotation
         /\ timers' = d.timers
  /\ targetRotation'.y <= MaxYaw /\ targetRotation'.y >= -MaxYaw
  /\ gesture' = IF isDragging /\ touches = 1
                  THEN [gesture EXCEPT !.moves = Min(2, @ + 1),
                                       !.upOnly = @ /\ y <= previousMousePosition.y]
                  ELSE gesture
  /\ UNCHANGED <<lifeVars, frameVars, hoverVars, cursor,
                 clickVars, sinceDragEnd, destroyCalls>>
  /\ UNCHANGED spine
  /\ lastEvent' = IF touches = 1 THEN "other" ELSE "multiTouch"
  /\ UNCHANGED lastHit
  /\ mirror' = TouchMoveEffect(mirror, touches, x, y)
  /\ UNCHANGED cookieVars

(* The setTimeout callback of onPointerUp: `if (!this.isDragging) ...'. *)
TimerEnablesAlways(dragging) == TRUE

TimerEnables(dragging) == ~dragging

TimerCallback ==
  /\ timers # << >>
  /\ Head(timers) = 0
  /\ timers' = Tail(timers)
  /\ autoRotate' = IF TimerEnables(isDragging) THEN TRUE ELSE autoRotate
  /\ UNCHANGED <<lifeVars, frameVars, isDragging, previousMousePosition,
                 targetRotation, hoverVars, cursor, clickVars, gesture,
                 sinceDragEnd, destroyCalls>>
  /\ UNCHANGED spine
  /\ lastEvent' = "other"
  /\ UNCHANGED lastHit
  /\ mirror' = IF mirror.timers = << >> THEN mirror
                ELSE [mirror EXCEPT !.timers = Tail(@),
                                    !.autoRotate = IF TimerEnables(mirror.isDragging)
                                                     THEN TRUE ELSE @]
  /\ UNCHANGED cookieVars

(***************************************************************************)
(* Click.                                                                  *)
(***************************************************************************)

RegionClickEventNoKey(region) ==
  [type |-> "spineRegionClick", target |-> "container", detail |-> regions[region]]

(* new CustomEvent('spineRegionClick', {detail: {key: region, ...regions[region]}}) *)
RegionClickEvent(region) ==
  [type |-> "spineRegionClick", target |-> "container",
   detail |-> regions[region] @@ [key |-> region]]

onClick(hit) ==
  /\ UserEvent("click")
  /\ Len(clickLog) < MaxEvents
  /\ clickLog' = Append(clickLog, hit)
  /\ dispatched' = IF hit # NULL THEN Append(dispatched, RegionClickEvent(hit))
                                 ELSE dispatched
  /\ UNCHANGED <<lifeVars, frameVars, dragVars, hoverVars, cursor, timers,
                 gesture, sinceDragEnd, destroyCalls>>
  /\ UNCHANGED spine
  /\ lastEvent' = "other"
  /\ UNCHANGED lastHit
  /\ UNCHANGED mirror
  /\ UNCHANGED cookieVars

(***************************************************************************)
(* Render loop and teardown.                                               *)
(***************************************************************************)

(* One run of the frame callback: request the next frame, rotate, render. *)
animate ==
  /\ framePending
  /\ LET r == AnimateRotation(autoRotate, targetRotation, currentRotation)
     IN  /\ targetRotation' = r.target
         /\ currentRotation' = r.current
  /\ framePending' = TRUE
  /\ renderCalls' = renderCalls + 1
  /\ UNCHANGED <<lifeVars, isDragging, autoRotate, previousMousePosition,
                 hoverVars, cursor, timers, clickVars, gesture, sinceDragEnd,
                 destroyCalls>>
  /\ spine' = [spine EXCEPT !.rotation = SpineRotation(currentRotation')]
  /\ lastEvent' = "other"
  /\ UNCHANGED lastHit
  /\ mirror' = [mirror EXCEPT !.targetRotation =
                  AnimateRotation(mirror.autoRotate, @, currentRotation).target]
  /\ UNCHANGED cookieVars

(* The browser runs the requested frame; the number of frames is bounded. *)
Frame ==
  /\ renderCalls < MaxFrames + 1
  /\ animate

SmoothFrame ==
  /\ renderCalls < MaxSmoothFrames + 1
  /\ animate

destroyClearingTimers ==
  /\ destroyCalls' = TRUE
  /\ timers' = << >>
  /\ IF renderer # UNDEFINED
       THEN /\ renderer' = "disposed"
            /\ IF canvasAttached
                 THEN canvasAttached' = FALSE /\ UNCHANGED thrown
                 ELSE thrown' = "NotFoundError" /\ UNCHANGED canvasAttached
       ELSE UNCHANGED <<renderer, canvasAttached, thrown>>
  /\ UNCHANGED <<container, listeners, frameVars, dragVars,
                 hoverVars, cursor, clickVars, gesture, sinceDragEnd>>
  /\ UNCHANGED spine
  /\ lastEvent' = "other"
  /\ UNCHANGED lastHit
  /\ mirror' = [mirror EXCEPT !.timers = << >>]
  /\ UNCHANGED cookieVars

destroy ==
  /\ destroyCalls' = TRUE
  /\ IF renderer # UNDEFINED
       THEN /\ renderer' = "disposed"
            /\ IF canvasAttached
                 THEN canvasAttached' = FALSE /\ UNCHANGED thrown
                 ELSE thrown' = "NotFoundError" /\ UNCHANGED canvasAttached
       ELSE UNCHANGED <<renderer, canvasAttached, thrown>>
  /\ UNCHANGED <<container, listeners, frameVars, dragVars,
                 hoverVars, cursor, timers, clickVars, gesture, sinceDragEnd>>
  /\ UNCHANGED spine
  /\ lastEvent' = "other"
  /\ UNCHANGED lastHit
  /\ UNCHANGED mirror
  /\ UNCHANGED cookieVars

(***************************************************************************)
(* Time.  ms of time pass; no timer is overdue, since a due callback runs  *)
(* before the clock moves on.                                              *)
(***************************************************************************)
Elapse(ms) ==
  /\ \A i \in 1..Len(timers) : timers[i] > 0
  /\ timers' = [i \in 1..Len(timers) |-> Max(0, timers[i] - ms)]
  /\ sinceDragEnd' = IF sinceDragEnd < 0 THEN sinceDragEnd
                     ELSE Min(AutoRotateDelay, sinceDragEnd + ms)
  /\ UNCHANGED <<lifeVars, frameVars, dragVars, hoverVars, cursor, clickVars,
                 gesture, destroyCalls>>
  /\ UNCHANGED spine
  /\ lastEvent' = "other"
  /\ UNCHANGED lastHit
  /\ mirror' = [mirror EXCEPT !.timers =
                  [i \in 1..Len(mirror.timers) |-> Max(0, mirror.timers[i] - ms)]]
  /\ UNCHANGED cookieVars


(***************************************************************************)
(* Inputs.  Pointer coordinates are client pixels; a ray-cast result is a *)
(* region or NULL; an event carries one or two touches.                    *)
(***************************************************************************)
PointerXs == {0, 100}
PointerYs == {0, 200}
TouchCounts == {1, 2}
Hits == Regions \cup {NULL}

MouseUp == onPointerUp("mouseup")
MouseLeave == onPointerUp("mouseleave")
TouchEnd == onPointerUp("touchend")
DelayPasses == Elapse(AutoRotateDelay)
SecondPasses == Elapse(AutoRotateDelay \div 3)

(***************************************************************************)
(* SpecTimer: drag starts, drag ends and the re-enable timers, in steps of *)
(* a third of the delay.                                                   *)
(***************************************************************************)
TimerMouseDown == onPointerDown(0, 0)
TimerTouchStart == \E n \in TouchCounts : onTouchStart(n, 0, 0)

NextTimer ==
  \/ TimerMouseDown
  \/ TimerTouchStart
  \/ MouseUp
  \/ MouseLeave
  \/ TouchEnd
  \/ TimerCallback
  \/ SecondPasses

SpecTimer == Init /\ [][NextTimer]_vars

(***************************************************************************)
(* SpecPitch: vertical mouse and touch drags.                              *)
(***************************************************************************)
PitchMouseDown == \E y \in PointerYs : onPointerDown(0, y)
PitchMouseMove == \E y \in PointerYs : onPointerMove(0, y, NULL)
PitchTouchStart == \E n \in TouchCounts, y \in PointerYs : onTouchStart(n, 0, y)
PitchTouchMove == \E n \in TouchCounts, y \in PointerYs : onTouchMove(n, 0, y)

NextPitch ==
  \/ PitchMouseDown
  \/ PitchMouseMove
  \/ PitchTouchStart
  \/ PitchTouchMove
  \/ MouseUp
  \/ TouchEnd
  \/ TimerCallback
  \/ DelayPasses

SpecPitch == Init /\ [][NextPitch]_vars

(***************************************************************************)
(* SpecClimb: long vertical mouse and touch drags, up to 10000 px up or    *)
(* down the screen, from pitch targets left by earlier drags.              *)
(***************************************************************************)
ClimbYs == {0, 100, 10000, 10100}

ClimbMouseDown == \E y \in ClimbYs : onPointerDown(0, y)
ClimbMouseMove == \E y \in ClimbYs : onPointerMove(0, y, NULL)
ClimbTouchStart == \E y \in ClimbYs : onTouchStart(1, 0, y)
ClimbTouchMove == \E y \in ClimbYs : onTouchMove(1, 0, y)

NextClimb ==
  \/ ClimbMouseDown
  \/ ClimbMouseMove
  \/ ClimbTouchStart
  \/ ClimbTouchMove
  \/ MouseUp
  \/ TimerCallback
  \/ DelayPasses

SpecClimb == Init /\ [][NextClimb]_vars

(***************************************************************************)
(* SpecYaw: horizontal mouse drags, the re-enable timer and the render     *)
(* loop.                                                                   *)
(***************************************************************************)
YawMouseDown == \E x \in PointerXs : onPointerDown(x, 0)
YawMouseMove == \E x \in PointerXs : onPointerMove(x, 0, NULL)

NextYaw ==
  \/ YawMouseDown
  \/ YawMouseMove
  \/ MouseUp
  \/ TimerCallback
  \/ DelayPasses
  \/ Frame

SpecYaw == Init /\ [][NextYaw]_vars

(***************************************************************************)
(* SpecSmooth: vertical drags and several render frames, for the damped    *)
(* pitch.                                                                  *)
(***************************************************************************)
SmoothMouseDown == \E y \in PointerYs : onPointerDown(0, y)
SmoothMouseMove == \E y \in PointerYs : onPointerMove(0, y, NULL)

NextSmooth ==
  \/ SmoothMouseDown
  \/ SmoothMouseMove
  \/ MouseUp
  \/ SmoothFrame

SpecSmooth == Init /\ [][NextSmooth]_vars

(***************************************************************************)
(* SpecRelease: the three drag-end events, in and out of a drag, with the  *)
(* pointer over and off the regions.                                       *)
(***************************************************************************)
ReleaseHits == {"lumbar", NULL}

ReleaseMouseMove == \E y \in PointerYs, hit \in ReleaseHits : onPointerMove(0, y, hit)

NextRelease ==
  \/ ReleaseMouseMove
  \/ TimerMouseDown
  \/ TimerTouchStart
  \/ MouseUp
  \/ MouseLeave
  \/ TouchEnd
  \/ TimerCallback
  \/ DelayPasses

SpecRelease == Init /\ [][NextRelease]_vars

(***************************************************************************)
(* SpecHover: the pointer moves over and off the hit-test volumes, with    *)
(* and without a drag in progress.                                         *)
(***************************************************************************)
HoverMouseMove == \E hit \in Hits : onPointerMove(0, 0, hit)

NextHover ==
  \/ HoverMouseMove
  \/ TimerMouseDown
  \/ MouseUp
  \/ TimerCallback
  \/ DelayPasses

SpecHover == Init /\ [][NextHover]_vars

(***************************************************************************)
(* SpecClick: clicks and pointer moves over and off the hit-test volumes.  *)
(***************************************************************************)
Click == \E hit \in Hits : onClick(hit)

NextClick ==
  \/ Click
  \/ HoverMouseMove

SpecClick == Init /\ [][NextClick]_vars

(***************************************************************************)
(* SpecLife: construction with and without a container, the render loop,   *)
(* a drag with its timer, and destroy().                                   *)
(***************************************************************************)
NextLife ==
  \/ destroy
  \/ Frame
  \/ TimerMouseDown
  \/ MouseUp
  \/ TimerCallback
  \/ DelayPasses

SpecLife == Init /\ [][NextLife]_vars


(***************************************************************************)
(* SpecBuild: init() from the entry of createDetailedSpine to its return,  *)
(* one statement at a time.                                                *)
(***************************************************************************)

(* The object when init() enters createDetailedSpine: the constructor's    *)
(* assignments and setupScene's renderer and canvas; no listener, no       *)
(* frame request and no material yet.                                      *)
InitBuild ==
  /\ container = TRUE
  /\ renderer = "live"
  /\ canvasAttached = TRUE
  /\ listeners = {}
  /\ framePending = FALSE
  /\ renderCalls = 0
  /\ thrown = NULL
  /\ isDragging = FALSE
  /\ autoRotate = TRUE
  /\ previousMousePosition = [x |-> 0, y |-> 0]
  /\ targetRotation = [x |-> 0, y |-> 0]
  /\ currentRotation = [x |-> 0, y |-> 0]
  /\ hoveredRegion = NULL
  /\ cursor = UNDEFINED
  /\ material = [m \in {} |-> 0]
  /\ userData = [n \in {} |-> 0]
  /\ tooltip = [count |-> 0, visible |-> FALSE, content |-> NULL]
  /\ timers = << >>
  /\ dispatched = << >>
  /\ prevHovered = NULL
  /\ gesture = NoGesture
  /\ destroyCalls = FALSE
  /\ sinceDragEnd = -1
  /\ clickLog = << >>
  /\ lastEvent = "other"
  /\ lastHit = "none"
  /\ mirror = DragState
  /\ consent = NULL
  /\ NoPage
  /\ spine = SpineStart

(* The segments and hit-test volumes built so far. *)
SegmentsBuilt(s) ==
  {s.children[k].seg : k \in 1..Len(s.children)}
    \cup {s.regionMeshes[k].seg : k \in 1..Len(s.regionMeshes)}

(* The statement at the present position runs; the builders it calls       *)
(* create the materials of what they build.                                *)
BuildStatement ==
  /\ spine' = createDetailedSpineStep(spine)
  /\ material' =
       [m \in {Scene[n].mat : n \in {k \in MeshIds : Scene[k].seg \in SegmentsBuilt(spine')}}
          |-> InitialMaterial(m)]
  /\ UNCHANGED <<lifeVars, frameVars, dragVars, hoveredRegion, userData, tooltip,
                 prevHovered, cursor, timers, clickVars, gesture, sinceDragEnd,
                 destroyCalls, lastEvent, lastHit, mirror>>
  /\ UNCHANGED cookieVars

RegionStart ==
  /\ spine.pc = "regionStart"
  /\ BuildStatement

ComputeScale ==
  /\ spine.pc = "scale"
  /\ BuildStatement

ComputeCurveOffset ==
  /\ spine.pc = "curveOffset"
  /\ BuildStatement

AddVertebra ==
  /\ spine.pc = "vertebra"
  /\ BuildStatement

AddDisc ==
  /\ spine.pc = "disc"
  /\ BuildStatement

Advance ==
  /\ spine.pc = "advance"
  /\ BuildStatement

RegionEnd ==
  /\ spine.pc = "regionEnd"
  /\ BuildStatement

AddSacrum ==
  /\ spine.pc = "sacrum"
  /\ BuildStatement

AddCoccyx ==
  /\ spine.pc = "coccyx"
  /\ BuildStatement

AddIndicators ==
  /\ spine.pc = "indicators"
  /\ BuildStatement

SetRotation ==
  /\ spine.pc = "rotation"
  /\ BuildStatement


NextBuild ==
  \/ RegionStart
  \/ ComputeScale
  \/ ComputeCurveOffset
  \/ AddVertebra
  \/ AddDisc
  \/ Advance
  \/ RegionEnd
  \/ AddSacrum
  \/ AddCoccyx
  \/ AddIndicators
  \/ SetRotation

SpecBuild == InitBuild /\ [][NextBuild]_vars


(***************************************************************************)
(* Cookie consent (src/cookie-consent.js).  Storage reads and writes       *)
(* succeed.                                                                *)
(***************************************************************************)
DEBUG_FORCE_SHOW == FALSE

(* isAccepted(), given the stored value. *)
isAccepted(stored) == stored = "accepted"

ShouldShowBannerIgnoringShown(stored, shown, dismissed) ==
  IF DEBUG_FORCE_SHOW THEN TRUE
  ELSE IF isAccepted(stored) THEN FALSE
  ELSE IF dismissed THEN FALSE
  ELSE TRUE

(* The value shouldShowBanner() returns; when it is TRUE and the debug    *)
(* flag is off the function has also set the session's shown mark.         *)
shouldShowBanner(stored, shown, dismissed) ==
  IF DEBUG_FORCE_SHOW THEN TRUE
  ELSE IF isAccepted(stored) THEN FALSE
  ELSE IF shown THEN FALSE
  ELSE IF dismissed THEN FALSE
  ELSE TRUE

EnableAlways(enabled, calls) == [enabled |-> TRUE, calls |-> calls + 1]

(* `if (!window.__PETROS_ANALYTICS_ENABLED__) { ... = true;                *)
(* window.enableAnalytics(); }': the flag and the number of calls after.   *)
EnableOnce(enabled, calls) ==
  IF enabled THEN [enabled |-> enabled, calls |-> calls]
  ELSE [enabled |-> TRUE, calls |-> calls + 1]

(* The classes of the banner when init() has appended it: createBanner()  *)
(* makes it collapsed, init() expands it on windows at most 640 px wide,   *)
(* and avoidFloatingButtons() marks it on wide windows when the page has a *)
(* WhatsApp link (wa: "none", or the half of the window the link is in).   *)
InitialBannerClass(wide, wa) ==
  (IF wide /\ ~DEBUG_FORCE_SHOW THEN {"collapsed"} ELSE {})
    \cup (IF wide /\ wa # "none" THEN {"avoid-wa"} ELSE {})
    \cup (IF wide /\ wa = "left" THEN {"collapsed-right"} ELSE {})

(* init() *)
init(wide, wa) ==
  LET show == shouldShowBanner(consent, sessionShown, sessionDismissed)
  IN  /\ sessionShown' = (sessionShown \/ (show /\ ~DEBUG_FORCE_SHOW))
      /\ banner' = show
      /\ bannerClass' = IF show THEN InitialBannerClass(wide, wa) ELSE {}
      /\ outsideListeners' = (show /\ wide)
      /\ showPending' = show
      /\ bannerLoads' = bannerLoads + (IF show THEN 1 ELSE 0)

(* A page of the site is loaded in the session: a new window runs the      *)
(* script, that is maybeEnableAnalyticsOnLoad() and then init(), at once   *)
(* when the document is ready and on DOMContentLoaded otherwise.           *)
PageLoad(ready, wide, wa) ==
  /\ loads < MaxLoads
  /\ loads' = loads + 1
  /\ LET e == IF isAccepted(consent) THEN EnableOnce(FALSE, 0)
              ELSE [enabled |-> FALSE, calls |-> 0]
     IN  /\ analyticsEnabled' = e.enabled
         /\ enableCalls' = e.calls
  /\ triggers' = IF consent = "accepted" THEN 1 ELSE 0
  /\ modal' = FALSE
  /\ analyticsSwitch' = FALSE
  /\ initPending' = ~ready
  /\ IF ready
       THEN init(wide, wa)
       ELSE /\ banner' = FALSE
            /\ bannerClass' = {}
            /\ outsideListeners' = FALSE
            /\ showPending' = FALSE
            /\ UNCHANGED <<sessionShown, bannerLoads>>
  /\ UNCHANGED <<consent, sessionDismissed>>
  /\ UNCHANGED modelVars

DOMContentLoaded(wide, wa) ==
  /\ initPending
  /\ initPending' = FALSE
  /\ init(wide, wa)
  /\ UNCHANGED <<consent, sessionDismissed, modal, analyticsSwitch,
                 analyticsEnabled, enableCalls, loads, triggers>>
  /\ UNCHANGED modelVars

(* The requestAnimationFrame callback of init(). *)
BannerFrame ==
  /\ showPending
  /\ showPending' = FALSE
  /\ bannerClass' = IF banner THEN bannerClass \cup {"cc-show"} ELSE bannerClass
  /\ UNCHANGED <<consent, sessionShown, sessionDismissed, banner, modal,
                 analyticsSwitch, analyticsEnabled, enableCalls, loads,
                 outsideListeners, initPending, bannerLoads, triggers>>
  /\ UNCHANGED modelVars

(* The browser session ends and another begins: sessionStorage is empty    *)
(* again, localStorage is kept, no page is loaded.                         *)
NewSession ==
  /\ loads > 0
  /\ sessionShown' = FALSE
  /\ sessionDismissed' = FALSE
  /\ banner' = FALSE
  /\ modal' = FALSE
  /\ analyticsSwitch' = FALSE
  /\ analyticsEnabled' = FALSE
  /\ enableCalls' = 0
  /\ loads' = 0
  /\ bannerClass' = {}
  /\ outsideListeners' = FALSE
  /\ initPending' = FALSE
  /\ showPending' = FALSE
  /\ bannerLoads' = 0
  /\ triggers' = 0
  /\ UNCHANGED consent
  /\ UNCHANGED modelVars

(* removeBanner(): the banner and its document listeners are gone. *)
removeBanner ==
  /\ banner' = FALSE
  /\ bannerClass' = {}
  /\ outsideListeners' = FALSE

(* Click on the banner's Accept button. *)
BannerAccept ==
  /\ banner
  /\ consent' = "accepted"
  /\ sessionDismissed' = TRUE
  /\ removeBanner
  /\ LET e == EnableOnce(analyticsEnabled, enableCalls)
     IN  /\ analyticsEnabled' = e.enabled
         /\ enableCalls' = e.calls
  /\ triggers' = triggers + 1
  /\ UNCHANGED <<sessionShown, modal, analyticsSwitch, loads, initPending,
                 showPending, bannerLoads>>
  /\ UNCHANGED modelVars

(* Click on the banner's Not now button. *)
BannerNotNow ==
  /\ banner
  /\ sessionDismissed' = TRUE
  /\ removeBanner
  /\ UNCHANGED <<consent, sessionShown, modal, analyticsSwitch, analyticsEnabled,
                 enableCalls, loads, initPending, showPending, bannerLoads,
                 triggers>>
  /\ UNCHANGED modelVars

(* expand(): click on the pill or its icon, Enter or Space on the icon. *)
BannerExpand ==
  /\ banner
  /\ bannerClass' = bannerClass \ {"collapsed"}
  /\ UNCHANGED <<consent, sessionShown, sessionDismissed, banner, modal,
                 analyticsSwitch, analyticsEnabled, enableCalls, loads,
                 outsideListeners, initPending, showPending, bannerLoads,
                 triggers>>
  /\ UNCHANGED modelVars

(* collapse(): click outside the banner or Escape, on wide windows. *)
BannerCollapse ==
  /\ banner
  /\ outsideListeners
  /\ bannerClass' = bannerClass \cup {"collapsed"}
  /\ UNCHANGED <<consent, sessionShown, sessionDismissed, banner, modal,
                 analyticsSwitch, analyticsEnabled, enableCalls, loads,
                 outsideListeners, initPending, showPending, bannerLoads,
                 triggers>>
  /\ UNCHANGED modelVars

(* openPreferencesModal(): whether the overlay is open, and the switch,    *)
(* afterwards.                                                             *)
openPreferencesModal(isOpen, switch, stored) ==
  IF isOpen THEN [modal |-> isOpen, analyticsSwitch |-> switch]
  ELSE [modal |-> TRUE, analyticsSwitch |-> (stored = "accepted")]

(* Click on the banner's Manage button.  The click is not stopped at the   *)
(* banner, so on wide windows the document's click listener collapses it.  *)
BannerManage ==
  /\ banner
  /\ LET m == openPreferencesModal(modal, analyticsSwitch, consent)
     IN  /\ modal' = m.modal
         /\ analyticsSwitch' = m.analyticsSwitch
  /\ bannerClass' = IF outsideListeners THEN bannerClass \cup {"collapsed"}
                    ELSE bannerClass
  /\ UNCHANGED <<consent, sessionShown, sessionDismissed, banner, analyticsEnabled,
                 enableCalls, loads, outsideListeners, initPending, showPending,
                 bannerLoads, triggers>>
  /\ UNCHANGED modelVars

(* Click, Enter or Space on the modal's analytics switch.  A click in the  *)
(* modal is outside the banner, so on wide windows it also reaches the     *)
(* document's click listener.                                              *)
toggleSwitch(byClick) ==
  /\ modal
  /\ analyticsSwitch' = ~analyticsSwitch
  /\ bannerClass' = IF byClick /\ outsideListeners
                      THEN bannerClass \cup {"collapsed"} ELSE bannerClass
  /\ UNCHANGED <<consent, sessionShown, sessionDismissed, banner, modal,
                 analyticsEnabled, enableCalls, loads, outsideListeners,
                 initPending, showPending, bannerLoads, triggers>>
  /\ UNCHANGED modelVars

(* The modal's Cancel button, a click on the overlay, or Escape on the     *)
(* switch: close().                                                        *)
ModalCancel(byClick) ==
  /\ modal
  /\ modal' = FALSE
  /\ bannerClass' = IF byClick /\ outsideListeners
                      THEN bannerClass \cup {"collapsed"} ELSE bannerClass
  /\ UNCHANGED <<consent, sessionShown, sessionDismissed, banner, analyticsSwitch,
                 analyticsEnabled, enableCalls, loads, outsideListeners,
                 initPending, showPending, bannerLoads, triggers>>
  /\ UNCHANGED modelVars

(* Click on the modal's Save button. *)
ModalSave ==
  /\ modal
  /\ IF analyticsSwitch
       THEN /\ consent' = "accepted"
            /\ LET e == EnableOnce(analyticsEnabled, enableCalls)
               IN  /\ analyticsEnabled' = e.enabled
                   /\ enableCalls' = e.calls
            /\ triggers' = triggers + 1
       ELSE /\ consent' = "rejected"
            /\ UNCHANGED <<analyticsEnabled, enableCalls, triggers>>
  /\ sessionDismissed' = TRUE
  /\ modal' = FALSE
  /\ removeBanner
  /\ UNCHANGED <<sessionShown, analyticsSwitch, loads, initPending, showPending,
                 bannerLoads>>
  /\ UNCHANGED modelVars

(***************************************************************************)
(* SpecCookie: one browser session, starting with any stored consent, on   *)
(* pages without a SpineModel container.                                   *)
(***************************************************************************)
StoredConsents == {NULL, "accepted", "rejected"}

InitCookie ==
  /\ container = FALSE
  /\ Inert
  /\ thrown = NULL
  /\ userData = [n \in {} |-> 0]
  /\ tooltip = [count |-> 0, visible |-> FALSE, content |-> NULL]
  /\ timers = << >>
  /\ dispatched = << >>
  /\ prevHovered = NULL
  /\ gesture = NoGesture
  /\ destroyCalls = FALSE
  /\ sinceDragEnd = -1
  /\ clickLog = << >>
  /\ lastEvent = "other"
  /\ lastHit = "none"
  /\ mirror = DragState
  /\ consent \in StoredConsents
  /\ NoPage

WaSides == {"none", "left", "right"}

LoadPage ==
  \E ready \in BOOLEAN, wide \in BOOLEAN, wa \in WaSides : PageLoad(ready, wide, wa)

DocumentReady ==
  \E wide \in BOOLEAN, wa \in WaSides : DOMContentLoaded(wide, wa)

SwitchToggled == \E byClick \in BOOLEAN : toggleSwitch(byClick)
ModalClosed == \E byClick \in BOOLEAN : ModalCancel(byClick)

NextCookie ==
  \/ LoadPage
  \/ DocumentReady
  \/ BannerFrame
  \/ NewSession
  \/ BannerAccept
  \/ BannerNotNow
  \/ BannerExpand
  \/ BannerCollapse
  \/ BannerManage
  \/ SwitchToggled
  \/ ModalClosed
  \/ ModalSave

SpecCookie == InitCookie /\ [][NextCookie]_vars


(***************************************************************************)
(* Properties.                                                             *)
(***************************************************************************)

(* The region of the segment of every mesh, and per region the materials   *)
(* of the anatomy meshes of its segments.                                  *)
SegmentRegionOf == [n \in MeshIds |-> SegmentRegion(n)]

RegionMaterials ==
  [r \in Regions |->
     {Scene[n].mat : n \in {k \in AnatomyMeshIds : SegmentRegionOf[k] = r}}]

(* Material m shows the highlight of region r. *)
Highlighted(m, r) ==
  /\ material[m].color = regions[r].color
  /\ material[m].emissive = regions[r].color
  /\ material[m].emissiveIntensity = HighlightIntensity

HighlightedRegions == {r \in Regions : \E m \in RegionMaterials[r] : Highlighted(m, r)}

(* No re-enable callback is waiting to run at the present instant. *)
NoTimerDue == \A i \in 1..Len(timers) : timers[i] > 0

(* C1: after any sequence of pointer moves, direct moves from one region's *)
(* hit-test volume into another's included, at most one region is hovered *)
(* and at most one region's anatomy meshes are highlighted.                *)
C1_OneRegionHighlighted ==
  container =>
    /\ hoveredRegion \in Hits
    /\ Cardinality(HighlightedRegions) <= 1

(* C1 witness: the pointer went from the cervical volume straight into the *)
(* thoracic one.                                                           *)
C1_Witness ==
  container /\ hoveredRegion = "thoracic" /\ prevHovered = "cervical"

(* C2: whenever a hover sequence has ended with the pointer off all        *)
(* hit-test volumes, every material has the colour and the emissive colour *)
(* it was created with.                                                    *)
C2_RoundTrip ==
  (container /\ hoveredRegion = NULL) =>
    \A m \in Materials :
      /\ material[m].color = InitialColor(m)
      /\ material[m].emissive = InitialMaterial(m).emissive

(* C2 witness: a region was hovered and the pointer has left it. *)
C2_Witness ==
  container /\ hoveredRegion = NULL /\ prevHovered \in Regions

(* C3: auto-rotate is enabled if and only if no drag is in progress and at *)
(* least 3000 ms have passed since the most recent drag ended, or no drag  *)
(* has ended yet (read at instants at which no callback is still to run).  *)
C3_AutoRotateIff ==
  (container /\ NoTimerDue) =>
    (autoRotate <=> (/\ ~isDragging
                     /\ (sinceDragEnd = -1 \/ sinceDragEnd >= AutoRotateDelay)))

(* C4: after a drag has ended and while no further drag is in progress,    *)
(* auto-rotate stays disabled during the next 3000 ms and is enabled once  *)
(* they have passed.                                                       *)
C4_DisabledForDelay ==
  (container /\ ~isDragging /\ sinceDragEnd >= 0) =>
    /\ (sinceDragEnd < AutoRotateDelay => ~autoRotate)
    /\ ((sinceDragEnd >= AutoRotateDelay /\ NoTimerDue) => autoRotate)

(* C5: the pitch target always lies in [-0.6, 0.6]. *)
C5_PitchClamped ==
  /\ targetRotation.x >= -PitchLimit
  /\ targetRotation.x <= PitchLimit

(* C5 witness: a drag in progress has driven the pitch target to the upper *)
(* limit.                                                                  *)
C5_Witness ==
  isDragging /\ gesture.moves > 0 /\ targetRotation.x = PitchLimit

(* C6: during a drag gesture and when it ends, the yaw target exceeds its  *)
(* value at pointer-down by exactly 0.008 times the horizontal distance    *)
(* from the pointer-down position to the last move position; 100 px add    *)
(* 0.8.                                                                    *)
C6_DragYaw ==
  /\ gesture.phase = "drag" =>
       targetRotation.y - gesture.yaw0
         = YawPerPixel * (previousMousePosition.x - gesture.x0)
  /\ gesture.phase = "done" => gesture.dyaw = YawPerPixel * gesture.dx
  /\ (gesture.phase = "done" /\ gesture.dx = 100) => gesture.dyaw = 800000

(* C6 witness: a gesture of at least two moves that ended 100 px to the    *)
(* right of where it began.                                                *)
C6_Witness ==
  gesture.phase = "done" /\ gesture.moves >= 2 /\ gesture.dx = 100

(* The event detail the external interface promises for region r. *)
ExpectedDetail(r) ==
  [key |-> r,
   name |-> regions[r].name,
   vertebrae |-> regions[r].vertebrae,
   count |-> regions[r].count,
   description |-> regions[r].description,
   function |-> regions[r].function,
   nerves |-> regions[r].nerves,
   conditions |-> regions[r].conditions,
   color |-> regions[r].color]

(* C7: the events dispatched on the container are exactly one              *)
(* 'spineRegionClick' per click that hit a region, in order, with the      *)
(* region's key and catalog entry as detail; clicks that hit nothing       *)
(* dispatch nothing.                                                       *)
C7_ClickDispatch ==
  LET hits == SelectSeq(clickLog, LAMBDA h : h # NULL)
  IN  /\ Len(dispatched) = Len(hits)
      /\ \A i \in 1..Len(hits) :
           /\ dispatched[i].type = "spineRegionClick"
           /\ dispatched[i].target = "container"
           /\ dispatched[i].detail = ExpectedDetail(hits[i])
           /\ hits[i] = "lumbar" =>
                /\ dispatched[i].detail.key = "lumbar"
                /\ dispatched[i].detail.count = "5 vertebrae"

(* C7 witness: a click into the lumbar hit-test volume. *)
C7_Witness ==
  /\ Len(clickLog) > 0
  /\ clickLog[Len(clickLog)] = "lumbar"
  /\ Len(dispatched) > 0

(* C8: on first entry of the pointer into region R's hit-test volume,      *)
(* every anatomy mesh of R's segments shows R's highlight colour with      *)
(* emissive intensity 0.2, and no mesh of another region is recoloured.    *)
C8_HighlightOnEntry ==
  (container /\ hoveredRegion \in Regions /\ prevHovered = NULL) =>
    /\ \A m \in RegionMaterials[hoveredRegion] : Highlighted(m, hoveredRegion)
    /\ \A r \in Regions \ {hoveredRegion} :
         \A m \in RegionMaterials[r] : material[m] = InitialMaterial(m)

(* C9: without a container the object is inert: no scene, renderer,        *)
(* listener, frame request or timer exists, and destroy() changes nothing  *)
(* and raises nothing.                                                     *)
C9_InertWithoutContainer ==
  ~container =>
    /\ renderer = UNDEFINED
    /\ DOMAIN material = {}
    /\ ~canvasAttached
    /\ listeners = {}
    /\ ~framePending
    /\ renderCalls = 0
    /\ timers = << >>
    /\ thrown = NULL

(* C9 witness: destroy() was called on an object built without container. *)
C9_Witness == ~container /\ destroyCalls

(* C10: once destroy() has been called, no frame callback changes the      *)
(* rotation state or draws the scene, and no frame is requested.           *)
C10_LoopStopsOnDestroy ==
  [][destroyCalls =>
       /\ UNCHANGED <<targetRotation, currentRotation, renderCalls>>
       /\ (framePending' => framePending)]_vars

(* C11: in every reachable state in which a mouse drag is in progress the  *)
(* canvas cursor is 'grabbing', also when the pointer enters or leaves a   *)
(* region's hit-test volume during the drag.  (Under SpecHover every drag  *)
(* is a mouse drag.)                                                       *)
C11_DragCursor == isDragging => cursor = "grabbing"

(* C12: in every reachable state in which a region is hovered and no drag  *)
(* is in progress the canvas cursor is 'pointer', including after a press  *)
(* and release made while the pointer stays inside the same region.        *)
C12_HoverCursor ==
  (hoveredRegion \in Regions /\ ~isDragging) => cursor = "pointer"

(* The drag in progress has moved the pointer up the screen only, by px    *)
(* pixels in all (clientY grows downwards).                                *)
DraggedUp(px) ==
  /\ gesture.phase = "drag"
  /\ gesture.upOnly
  /\ gesture.y0 - previousMousePosition.y = px

(* C13: starting from any pitch target, a drag whose cumulative vertical   *)
(* movement is 10000 px upward leaves the pitch target exactly at the      *)
(* upper clamp 0.6.                                                        *)
C13_UpwardDragUpperClamp == DraggedUp(10000) => targetRotation.x = PitchLimit

(* C13 as amended: starting from any pitch target, a drag whose cumulative *)
(* vertical movement is 10000 px upward leaves the pitch target exactly at *)
(* the lower clamp -0.6.                                                   *)
C13_UpwardDragLowerClamp == DraggedUp(10000) => targetRotation.x = -PitchLimit

(* C13 witness: a drag that began with the pitch target at the upper clamp *)
(* has gone up 10000 px in two moves.                                      *)
C13_Witness ==
  DraggedUp(10000) /\ gesture.pitch0 = PitchLimit /\ gesture.moves >= 2

(* createDetailedSpine has returned. *)
SpineBuilt == spine.pc = "done"

(* What the step-by-step assembly leaves is the scene the object starts    *)
(* with: the same spine, and one material per mesh material of the scene.  *)
BuildMatchesScene ==
  SpineBuilt =>
    /\ spine = [BuiltSpine EXCEPT !.rotation = spine.rotation]
    /\ spine.rotation = [x |-> InitialTilt, y |-> -InitialTurn]
    /\ material = [m \in Materials |-> InitialMaterial(m)]
    /\ SegmentsBuilt(spine) = {Scene[n].seg : n \in NodeIds}

(* The segments placed so far that are tagged with region r, and the       *)
(* vertebrae of r in the order they were placed.                           *)
Tagged(r) == {k \in 1..Len(spine.children) : spine.children[k].region = r}

Column(r) ==
  SelectSeq(spine.children, LAMBDA c : c.region = r /\ c.seg[1] = "vertebra")

Abs(x) == IF x < 0 THEN -x ELSE x

(* Regions in anatomical order, top first. *)
RegionRank(r) == CHOOSE k \in 1..Len(RegionKeys) : RegionKeys[k] = r

(* C14: the assembled spine has exactly 7 segments tagged cervical, 12     *)
(* tagged thoracic and 5 tagged lumbar, all of them vertebrae built with   *)
(* exactly one shape flag set, the one of their region; one sacrum and one *)
(* coccyx, both tagged sacral; and the regions lie in the order cervical,  *)
(* thoracic, lumbar, sacral from top to bottom.                            *)
C14_Assembly ==
  SpineBuilt =>
    /\ Cardinality(Tagged("cervical")) = 7
    /\ Cardinality(Tagged("thoracic")) = 12
    /\ Cardinality(Tagged("lumbar")) = 5
    /\ \A k \in Tagged("cervical") \cup Tagged("thoracic") \cup Tagged("lumbar") :
         LET c == spine.children[k]
         IN  /\ c.seg[1] = "vertebra"
             /\ c.isCervical = (c.region = "cervical")
             /\ c.isThoracic = (c.region = "thoracic")
             /\ c.isLumbar = (c.region = "lumbar")
    /\ {spine.children[k].seg[1] : k \in Tagged("sacral")} = {"sacrum", "coccyx"}
    /\ Cardinality(Tagged("sacral")) = 2
    /\ \A j, k \in 1..Len(spine.children) :
         LET a == spine.children[j]
             b == spine.children[k]
         IN  (a.region \in Regions /\ b.region \in Regions
              /\ RegionRank(a.region) < RegionRank(b.region)) => a.y > b.y

(* C14 witness: the spine is assembled, 24 vertebrae with 21 discs between *)
(* them, the sacrum and the coccyx.                                        *)
C14_Witness ==
  /\ SpineBuilt
  /\ Len(spine.children) = 47
  /\ Len(Column("cervical")) + Len(Column("thoracic")) + Len(Column("lumbar")) = 24

(* The segment at the middle of a column of n: the middle one, or one of   *)
(* the two middle ones when n is even.                                     *)
Midpoints(n) == {(n + 1) \div 2, n \div 2 + 1}

(* C15: for each region, the curve offset is 0 at both the first and the   *)
(* last segment of the region and is maximal in magnitude at the region's  *)
(* midpoint.  First and last are checked as soon as they are placed, the   *)
(* midpoint once the region's loop has ended.                              *)
C15_SineProfile ==
  \A r \in {"cervical", "thoracic", "lumbar"} :
    LET col == Column(r)
        total == VertebraLoop(r).total
    IN  /\ Len(col) >= 1 => col[1].curveOffset = 0
        /\ Len(col) = total => col[total].curveOffset = 0
        /\ r \in DOMAIN spine.end =>
             \E m \in Midpoints(total) :
               \A k \in 1..total : Abs(col[k].curveOffset) <= Abs(col[m].curveOffset)

(* C16: every cervical and every lumbar segment has curve offset >= 0,     *)
(* every thoracic segment has curve offset <= 0, the sacrum and the coccyx *)
(* have curve offset 0, and magnitudes never exceed 0.15 (cervical), 0.25  *)
(* (thoracic) and 0.35 (lumbar).                                           *)
C16_CurvatureSign ==
  \A k \in 1..Len(spine.children) :
    LET c == spine.children[k]
    IN  /\ c.region = "cervical" => c.curveOffset >= 0 /\ c.curveOffset <= 150000000
        /\ c.region = "thoracic" => c.curveOffset <= 0 /\ c.curveOffset >= -250000000
        /\ c.region = "lumbar" => c.curveOffset >= 0 /\ c.curveOffset <= 350000000
        /\ c.region = "sacral" => c.curveOffset = 0

(* C16 witness: in the assembled spine some segment of each curved region  *)
(* is displaced, forward in the cervical and lumbar regions and backward   *)
(* in the thoracic one, the thoracic one by the full 0.25.                 *)
C16_Witness ==
  /\ SpineBuilt
  /\ \E k \in Tagged("cervical") : spine.children[k].curveOffset > 0
  /\ \E k \in Tagged("thoracic") : spine.children[k].curveOffset = -250000000
  /\ \E k \in Tagged("lumbar") : spine.children[k].curveOffset > 0

(* The hit-test volume of region r, and the ends of its vertical span.     *)
IndicatorOf(r) ==
  spine.regionMeshes[CHOOSE k \in 1..Len(spine.regionMeshes) :
                       spine.regionMeshes[k].region = r]

SpanTop(r) == IndicatorOf(r).y + IndicatorOf(r).height \div 2
SpanBottom(r) == IndicatorOf(r).y - IndicatorOf(r).height \div 2

(* C17: for each of the four regions, the vertical span of the region's    *)
(* hit-test volume (centre plus/minus half its height) exactly bounds the  *)
(* positions of the segments tagged with the region: its top equals the    *)
(* highest segment position, its bottom is at or below the lowest, and no  *)
(* segment of the region lies outside it.                                  *)
C17_IndicatorSpan ==
  SpineBuilt =>
    \A r \in Regions :
      /\ \E k \in Tagged(r) : spine.children[k].y = SpanTop(r)
      /\ \A k \in Tagged(r) :
           /\ spine.children[k].y <= SpanTop(r)
           /\ spine.children[k].y >= SpanBottom(r)

(* C17 witness: the four hit-test volumes exist; the thoracic one ends     *)
(* exactly at its lowest vertebra and the sacral one ends below the        *)
(* coccyx.                                                                 *)
C17_Witness ==
  /\ SpineBuilt
  /\ Len(spine.regionMeshes) = 4
  /\ \E k \in Tagged("thoracic") : spine.children[k].y = SpanBottom("thoracic")
  /\ \A k \in Tagged("sacral") : spine.children[k].y > SpanBottom("sacral")

(* C18: if destroy() is called while an auto-rotate re-enable timer is     *)
(* pending, the timer is not cancelled; its callback later runs without    *)
(* raising an error and changes nothing except the auto-rotate flag (and   *)
(* leaves the timer queue).  A step that sets destroyCalls, or repeats     *)
(* destroy(), keeps the pending timers; a step that takes a timer off the  *)
(* queue after destroy() is its callback.                                  *)
C18_TimerSurvivesDestroy ==
  [][/\ (destroyCalls' /\ (~destroyCalls \/ renderer' # renderer \/ thrown' # thrown))
          => timers' = timers
     /\ (destroyCalls /\ Len(timers') < Len(timers))
          => /\ thrown' = thrown
             /\ timers' = Tail(timers)
             /\ autoRotate' = (autoRotate \/ ~isDragging)
             /\ UNCHANGED <<container, renderer, canvasAttached, listeners,
                            frameVars, isDragging, previousMousePosition,
                            targetRotation, hoverVars, cursor, clickVars, spine>>]_vars

(* C18 witness: destroy() has been called without an error, auto-rotate is *)
(* off, and a timer that was pending then is still queued and now due.     *)
C18_Witness ==
  /\ destroyCalls
  /\ thrown = NULL
  /\ ~autoRotate
  /\ timers # << >>
  /\ Head(timers) = 0

(* C19: a touchstart or touchmove carrying a number of touches other than  *)
(* one leaves the drag flag, the auto-rotate flag, the recorded pointer    *)
(* position and both rotation targets unchanged.                           *)
C19_MultiTouchIgnored ==
  [][lastEvent' = "multiTouch" =>
       UNCHANGED <<isDragging, autoRotate, previousMousePosition, targetRotation>>]_vars

(* C19 witness: a two-finger touch event has just arrived during a drag    *)
(* that had already moved the pointer away from the top of the canvas.     *)
C19_Witness ==
  /\ lastEvent = "multiTouch"
  /\ isDragging
  /\ gesture.moves >= 1
  /\ previousMousePosition.y # 0

(* C20: in every reachable state, under every interleaving of mouse and    *)
(* touch events and timer expiries, not (autoRotate and isDragging); a     *)
(* re-enable timer that expires during a newer drag leaves auto-rotate     *)
(* disabled.                                                               *)
C20_NoAutoRotateInDrag == ~(autoRotate /\ isDragging)

(* C20 witness: during a drag that began after an earlier drag had ended,  *)
(* a re-enable timer is due and auto-rotate is off.                        *)
C20_Witness ==
  /\ isDragging
  /\ ~autoRotate
  /\ sinceDragEnd >= 0
  /\ timers # << >>
  /\ Head(timers) = 0

(* C21: every mouse move performs the hover check whether or not a drag is *)
(* in progress (the hovered region is the last ray-cast result, NULL for   *)
(* a miss), and a hover entry or exit never changes the drag flag or the   *)
(* auto-rotate flag, nor the rotation targets unless the same move also    *)
(* drags the pointer to a new position.                                    *)
C21_HoverOrthogonal ==
  [][/\ lastHit' # "none" => hoveredRegion' = lastHit'
     /\ hoveredRegion' # hoveredRegion =>
          /\ isDragging' = isDragging
          /\ autoRotate' = autoRotate
          /\ (previousMousePosition' = previousMousePosition
                => targetRotation' = targetRotation)]_vars

(* C21 witness: a region is hovered that was entered from another region   *)
(* while the drag in progress was going on (the cursor was 'grabbing' when *)
(* the drag began and only a hover entry sets 'pointer').                  *)
C21_Witness ==
  /\ isDragging
  /\ hoveredRegion \in Regions
  /\ prevHovered \in Regions
  /\ cursor = "pointer"

(* The other three combinations of dragging and hovering. *)
C21_DragNoHover == isDragging /\ hoveredRegion = NULL /\ prevHovered \in Regions
C21_HoverNoDrag == ~isDragging /\ hoveredRegion \in Regions /\ gesture.phase = "done"
C21_Idle == ~isDragging /\ hoveredRegion = NULL /\ prevHovered \in Regions

(* C22: a render frame adds exactly 0.002 to the yaw target when           *)
(* auto-rotate is enabled and leaves the yaw target unchanged when it is   *)
(* disabled; in both cases it leaves the pitch target, the drag flag, the  *)
(* auto-rotate flag and the hovered region unchanged.  (Only a frame       *)
(* changes renderCalls.)                                                   *)
C22_FrameEffect ==
  [][renderCalls' # renderCalls =>
       /\ targetRotation'.y = targetRotation.y + (IF autoRotate THEN 2000 ELSE 0)
       /\ targetRotation'.x = targetRotation.x
       /\ UNCHANGED <<isDragging, autoRotate, hoveredRegion>>]_vars

(* C22 witness: one frame has run since construction, during a drag that   *)
(* has not moved, and the yaw target is still where construction left it.  *)
C22_Witness ==
  /\ renderCalls = 2
  /\ isDragging
  /\ gesture.moves = 0
  /\ targetRotation.y = 2000

(* C23: the smoothed current pitch never leaves [-0.6, 0.6], so the tilt   *)
(* applied to the spine stays in [-0.45, 0.75]; and a frame, which leaves  *)
(* the pitch target where it is, moves the current pitch toward the target *)
(* without passing it, so the distance to the target never increases.      *)
C23_Range ==
  renderer # UNDEFINED =>
    /\ currentRotation.x >= -PitchLimit
    /\ currentRotation.x <= PitchLimit
    /\ spine.rotation.x >= -450000
    /\ spine.rotation.x <= 750000

C23_Step ==
  renderCalls' # renderCalls =>
    /\ targetRotation'.x = targetRotation.x
    /\ IF currentRotation.x <= targetRotation.x
         THEN /\ currentRotation.x <= currentRotation'.x
              /\ currentRotation'.x <= targetRotation.x
         ELSE /\ targetRotation.x <= currentRotation'.x
              /\ currentRotation'.x <= currentRotation.x
    /\ Abs(targetRotation.x - currentRotation'.x)
         <= Abs(targetRotation.x - currentRotation.x)

C23_SmoothedPitch == []C23_Range /\ [][C23_Step]_vars

(* C23 witness: the pitch target is at the lower clamp and frames have     *)
(* moved the current pitch part of the way there.                          *)
C23_Witness ==
  /\ targetRotation.x = -PitchLimit
  /\ renderCalls >= 3
  /\ currentRotation.x < 0
  /\ currentRotation.x > targetRotation.x
  /\ spine.rotation.x = InitialTilt + currentRotation.x

(* C24: touch mirrors mouse for single-touch input.  After every step the  *)
(* model that received the touch sequence and the model that received the  *)
(* mouse sequence with the same coordinates have the same drag flag,       *)
(* auto-rotate flag, scheduled re-enable timers and yaw and pitch targets. *)
C24_TouchMirrorsMouse ==
  /\ mirror.isDragging = isDragging
  /\ mirror.autoRotate = autoRotate
  /\ mirror.timers = timers
  /\ mirror.targetRotation = targetRotation

(* C24 witness: a mouse drag (only mousedown sets the grabbing cursor) has *)
(* been pushed into the upper pitch clamp after an earlier gesture ended   *)
(* and scheduled a timer, and the touch-driven model is dragging too.      *)
C24_Witness ==
  /\ isDragging
  /\ cursor = "grabbing"
  /\ gesture.moves >= 1
  /\ targetRotation.x = PitchLimit
  /\ timers # << >>
  /\ mirror.isDragging
  /\ mirror.targetRotation.x = PitchLimit

(* C25: the tooltip is visible exactly when some region is hovered, its    *)
(* content is then that of the hovered region, and at most one tooltip     *)
(* element exists.                                                         *)
C25_Tooltip ==
  /\ tooltip.visible <=> hoveredRegion \in Regions
  /\ tooltip.visible => tooltip.content = TooltipContent(hoveredRegion)
  /\ tooltip.count <= 1

(* C25 witness: the pointer went from one region straight to another, so   *)
(* the existing tooltip element was rewritten and is visible.              *)
C25_Witness ==
  /\ hoveredRegion \in Regions
  /\ prevHovered \in Regions
  /\ prevHovered # hoveredRegion
  /\ tooltip.visible
  /\ tooltip.count = 1
  /\ tooltip.content.title = regions[hoveredRegion].name

(* The tooltip has been shown and hidden again. *)
C25_Hidden ==
  /\ hoveredRegion = NULL
  /\ prevHovered \in Regions
  /\ ~tooltip.visible
  /\ tooltip.count = 1

(* C26: a drag-end event (mouseup, mouseleave, touchend), whether or not a *)
(* drag was in progress, clears the drag flag, sets the cursor and         *)
(* schedules one re-enable timer, and changes nothing else: both rotation  *)
(* targets, the hovered region, the mesh highlight state and the tooltip   *)
(* are as before.  (Only a drag-end event lengthens the timer queue.)      *)
C26_DragEndEffect ==
  [][Len(timers') > Len(timers) =>
       /\ timers' = Append(timers, AutoRotateDelay)
       /\ UNCHANGED <<targetRotation, hoveredRegion, material, userData, tooltip>>
       /\ UNCHANGED <<autoRotate, previousMousePosition, currentRotation,
                      renderer, canvasAttached, listeners, framePending,
                      renderCalls, thrown, dispatched, spine>>]_vars

(* C26 witness: a drag that changed the pitch target has been ended while  *)
(* a region was hovered.                                                   *)
C26_Witness ==
  /\ ~isDragging
  /\ gesture.phase = "done"
  /\ timers # << >>
  /\ targetRotation.x # 0
  /\ hoveredRegion \in Regions
  /\ tooltip.visible
  /\ cursor = "grab"

(* A drag-end event has arrived although no drag had ever begun, while a   *)
(* region was hovered.                                                     *)
C26_NoDrag ==
  /\ gesture.phase = "none"
  /\ timers # << >>
  /\ hoveredRegion \in Regions
  /\ tooltip.visible

(* C27: destroy() is idempotent: on a constructed model, however often it  *)
(* has been called, no call has raised an error and the container is       *)
(* without the canvas.                                                     *)
C27_DestroyIdempotent ==
  (destroyCalls /\ renderer # UNDEFINED) =>
    /\ thrown = NULL
    /\ ~canvasAttached

(* C28: across the page loads of one browser session the cookie banner is  *)
(* shown on at most one load, and it is never shown on a load where the    *)
(* stored consent is 'accepted' or after it was dismissed in that session. *)
C28_BannerOncePerSession ==
  /\ [](bannerLoads <= 1)
  /\ [][bannerLoads' > bannerLoads =>
          (consent # "accepted" /\ ~sessionDismissed)]_vars

(* C28 witness: the first load of the session showed the banner, it was    *)
(* neither accepted nor dismissed, and the second load did not show it.    *)
C28_Witness ==
  /\ loads = 2
  /\ ~initPending
  /\ bannerLoads = 1
  /\ ~banner
  /\ consent # "accepted"
  /\ ~sessionDismissed

(* C29: within one page load enableAnalytics() is invoked at most once,    *)
(* whatever the order and number of the triggers.                          *)
C29_EnableOnce == enableCalls <= 1

(* C29 witness: on one page both the banner's Accept and the modal's Save  *)
(* with analytics on have been clicked, and enableAnalytics() ran once.    *)
C29_Witness ==
  /\ triggers >= 2
  /\ enableCalls = 1
  /\ analyticsEnabled
  /\ consent = "accepted"

(* C30: in every state of a loaded page the analytics-enabled flag is set  *)
(* if and only if the stored consent is 'accepted', under every            *)
(* interleaving of the banner's and the modal's buttons.                   *)
C30_FlagIffAccepted ==
  loads > 0 => (analyticsEnabled <=> consent = "accepted")

====
